---------------------------- MODULE Spec2Model ----------------------------
(***************************************************************************)
(* Hover word capture of the OCR tool (src/ui/hover_tool.py) and its       *)
(* caller (src/ui/main_window.py).                                         *)
(*                                                                         *)
(* Representation                                                          *)
(*   text        a sequence of one-character strings                       *)
(*   box         <<min_x, max_x, min_y, max_y>>, integer pixels            *)
(*   confidence  an integer number of tenths (0.6 is 6)                    *)
(*   fragment    [text, box, conf], the (text, box, conf) tuple of the OCR *)
(*   point       <<x, y>>                                                  *)
(*   distances   kept squared; every comparison the code makes on the      *)
(*               square roots is made exactly on the integers              *)
(***************************************************************************)
EXTENDS Integers, Sequences, FiniteSets, TLC

VARIABLES
    \* ---- WordSelector applied to one OCR output
    ocr_results,        \* the list given to select_word_at_position
    mouse_pos,          \* global cursor position of that call
    capture_rect,       \* <<x, y, width, height>> of that call
    filtered_results,   \* the list built at hover_tool.py:294
    target_text_box,    \* result of _find_text_box_at_mouse (NoneFrag if None)
    selected_word,      \* result of select_word_at_position (NoneWord if None)
    refiltered,         \* the filter applied to filtered_results
    gate_valid,         \* result of _is_valid_ocr_result on ocr_results:
                        \* "none", "valid", "invalid"
    text_length,        \* text_length of _select_word_from_text at line
                        \* 419, -1 while that line has not been reached
    selPc,              \* "idle", "input", "selected", "refiltered"
    \* ---- HoverTool and MainWindow
    stack,              \* the capture_at_cursor invocations in flight, the
                        \* innermost last; an invocation nested in another
                        \* one runs inside its processEvents()
    current_capture_rect,   \* HoverTool.current_capture_rect
    dpi_scale,          \* OCRProcessor.dpi_scale, in quarters (1.0 is 4)
    has_external_tool,  \* MainWindow.has_external_tool
    \* ---- TextProcessor and the word locator applied to one fragment
    tok_text,           \* the fragment's text
    tok_box,            \* the fragment's box
    tok_mouse,          \* the mouse position relative to the capture
    tok_cuts,           \* where jieba cuts tok_text
    tok_strategy,       \* the tokenizer tokenize_text hands the text to
    space_tokens,       \* result of _space_tokenize
    jieba_tokens,       \* result of _jieba_tokenize
    word_positions,     \* result of tokenize_text
    located_word,       \* result of _select_word_from_text
    position_word,      \* result of select_word_at_position on the
                        \* fragment alone, with confidence 0.9
    tokPc,              \* "idle", "input", "tokenized", "located"
    \* ---- OCRProcessor's capture region for one configured size
    cfg_size,           \* <<width, height>> of a size configuration
    cfg_scale,          \* devicePixelRatio of the screen, in quarters
    cfg_pos,            \* the position the capture is centred on
    capture_region,     \* result of _create_capture_region
    dpiPc,              \* "idle", "input", "adjusted"
    \* ---- CrossPlatformHotkeyManager
    hotkey_combo,       \* self.hotkey_combo: [modifiers, key]
    pressed_keys,       \* KeyboardState.pressed_keys
    current_state,      \* state_machine.current_state: "idle", "ready",
                        \* "activated", "error"
    state_callbacks,    \* length of KeyboardState._state_callbacks
    running,            \* self._running
    listener,           \* the platform handler has a keyboard listener
    current_feedback_state, \* FeedbackManager._current_feedback_state
    queued_slots,       \* slot calls waiting in the main thread's queue
    idle_timers,        \* single-shot timers that will emit show_idle
    signals,            \* signals the manager emitted in the last handler
    hotPc,              \* the last handler: "idle", "init", "press",
                        \* "release", "start", "stop", "change", "slot",
                        \* "timer"
    \* ---- VisualFeedback
    fb_geometry,        \* geometry of self.view: <<x, y, width, height>>
    is_showing,         \* self.is_showing
    view_visible,       \* self.view is shown
    timer_active,       \* self.timer.isActive()
    timer_left,         \* milliseconds until self.timer times out
    since_show,         \* milliseconds since the latest show of a
                        \* rectangle with an area, up to FEEDBACK_DURATION
    fb_rect,            \* the argument of the latest show
    fbPc                \* "idle", "init", "show", "tick", "timeout"

hoverVars == <<stack, current_capture_rect, dpi_scale, has_external_tool>>

tokVars == <<tok_text, tok_box, tok_mouse, tok_cuts, tok_strategy,
             space_tokens, jieba_tokens, word_positions, located_word,
             position_word, tokPc>>

dpiVars == <<cfg_size, cfg_scale, cfg_pos, capture_region, dpiPc>>

hotVars == <<hotkey_combo, pressed_keys, current_state, state_callbacks,
             running, listener, current_feedback_state, queued_slots,
             idle_timers, signals, hotPc>>

fbVars == <<fb_geometry, is_showing, view_visible, timer_active, timer_left,
            since_show, fb_rect, fbPc>>

pureVars == <<tokVars, dpiVars, hotVars, fbVars>>

selVars == <<ocr_results, mouse_pos, capture_rect, filtered_results,
             target_text_box, selected_word, refiltered, gate_valid,
             text_length, selPc>>

coreVars == <<selVars, hoverVars, tokVars, dpiVars>>

vars == <<coreVars, hotVars, fbVars>>

----------------------------------------------------------------------------
(* CaptureConfig, hover_tool.py:10-29 *)

SMALL_SIZE == <<200, 80>>
MEDIUM_SIZE == <<300, 120>>
LARGE_SIZE == <<400, 160>>
MIN_TEXT_LENGTH == 1
CONFIDENCE_THRESHOLD == 6
MOUSE_INFLUENCE_RADIUS == 40

(* Python's None for a fragment and for a word *)
NoneFrag == [text |-> <<>>, box |-> <<0, 0, 0, 0>>, conf |-> -1]
NoneWord == <<"<None>">>

----------------------------------------------------------------------------
(* str.strip() *)

Whitespace == {" ", "\t", "\n"}

RECURSIVE LStrip(_)
LStrip(t) ==
    IF t = <<>> THEN <<>>
    ELSE IF Head(t) \in Whitespace THEN LStrip(Tail(t)) ELSE t

RECURSIVE RStrip(_)
RStrip(t) ==
    IF t = <<>> THEN <<>>
    ELSE IF t[Len(t)] \in Whitespace THEN RStrip(SubSeq(t, 1, Len(t) - 1)) ELSE t

Strip(t) == RStrip(LStrip(t))

----------------------------------------------------------------------------
(* The candidate filter, select_word_at_position lines 294-298 *)

KeepsAnyText(f) == f.conf >= CONFIDENCE_THRESHOLD

KeepsStrictlyAbove(f) ==
    /\ f.conf > CONFIDENCE_THRESHOLD
    /\ Len(Strip(f.text)) >= MIN_TEXT_LENGTH

PassesFilter(f) ==
    /\ f.conf >= CONFIDENCE_THRESHOLD
    /\ Len(Strip(f.text)) >= MIN_TEXT_LENGTH

RECURSIVE FilterFrom(_, _)
FilterFrom(res, i) ==
    IF i > Len(res) THEN <<>>
    ELSE IF PassesFilter(res[i]) THEN <<res[i]>> \o FilterFrom(res, i + 1)
    ELSE FilterFrom(res, i + 1)

FilterSkippingFirst(res) == FilterFrom(res, 2)

FilterResults(res) == FilterFrom(res, 1)

----------------------------------------------------------------------------
(* _calculate_distance_to_box, lines 396-406, squared *)

Max3(a, b, c) ==
    IF a >= b /\ a >= c THEN a ELSE IF b >= c THEN b ELSE c

DistSqToBox(point, box) ==
    LET dx == Max3(box[1] - point[1], 0, point[1] - box[2])
        dy == Max3(box[3] - point[2], 0, point[2] - box[4])
    IN  dx * dx + dy * dy

(* The sign of sqrt(A) - R / d for integers A >= 0, R > 0, d > 0, decided  *)
(* without leaving the 32-bit integers: with q = R div d and r = R mod d,  *)
(* sqrt(A) < q + r/d  iff  d*d*(A - q*q) < 2*d*q*r + r*r when               *)
(* q*q <= A < (q+1)*(q+1).  46339 is the largest q with (q+1)*(q+1) below  *)
(* 2^31.                                                                    *)
SqrtCmpRat(A, R, d) ==
    LET q == R \div d
        r == R % d
    IN  IF q > 46339 THEN -1
        ELSE IF A < q * q THEN -1
        ELSE IF A >= (q + 1) * (q + 1) THEN 1
        ELSE LET X == d * d * (A - q * q)
                 Y == 2 * d * q * r + r * r
             IN  IF X < Y THEN -1 ELSE IF X = Y THEN 0 ELSE 1

(* The comparison made by min(..., key=lambda x: x[3] * 2 - x[2]) at lines *)
(* 374-375:  2 * sqrt(da) - ca / 10  <  2 * sqrt(db) - cb / 10.             *)
(* With A = 400 * da, B = 400 * db and k = cb - ca it is                    *)
(* sqrt(A) + k < sqrt(B).                                                   *)
ScoreLess(da, ca, db, cb) ==
    LET A == 400 * da
        B == 400 * db
        k == cb - ca
        m == ca - cb
        R == B - A - k * k
        L == A - B - m * m
    IN  IF k = 0 THEN da < db
        ELSE IF k > 0
             THEN IF R <= 0 THEN FALSE ELSE SqrtCmpRat(A, R, 2 * k) = -1
             ELSE IF L < 0 THEN TRUE
                  ELSE IF L = 0 THEN B > 0
                  ELSE SqrtCmpRat(B, L, 2 * m) = 1

----------------------------------------------------------------------------
(* _find_text_box_at_mouse, lines 334-394 *)

InsideXOnly(box, p) ==
    box[1] <= p[1] /\ p[1] <= box[2]

Inside(box, p) ==
    /\ box[1] <= p[1] /\ p[1] <= box[2]
    /\ box[3] <= p[2] /\ p[2] <= box[4]

NearbyNoCutoff(box, p, radius) == TRUE

Nearby(box, p, radius) ==
    /\ box[1] - radius <= p[1] /\ p[1] <= box[2] + radius
    /\ box[3] - radius <= p[2] /\ p[2] <= box[4] + radius

candidates_inside(filtered, p) ==
    SelectSeq(filtered, LAMBDA f : Inside(f.box, p))

candidates_nearby(filtered, p) ==
    SelectSeq(filtered, LAMBDA f : Nearby(f.box, p, MOUSE_INFLUENCE_RADIUS))

(* max(candidates_inside, key=conf): the first of the maximal ones *)
RECURSIVE MaxByConf(_, _, _)
MaxByConf(cands, i, best) ==
    IF i > Len(cands) THEN best
    ELSE IF cands[i].conf > best.conf THEN MaxByConf(cands, i + 1, cands[i])
    ELSE MaxByConf(cands, i + 1, best)

(* min(candidates_nearby, key=distance * 2 - conf): the first of the minimal *)
RECURSIVE MinByScore(_, _, _, _)
MinByScore(cands, p, i, best) ==
    IF i > Len(cands) THEN best
    ELSE IF ScoreLess(DistSqToBox(p, cands[i].box), cands[i].conf,
                      DistSqToBox(p, best.box), best.conf)
         THEN MinByScore(cands, p, i + 1, cands[i])
         ELSE MinByScore(cands, p, i + 1, best)

(* line 352 *)
LastMostConfident(cands) ==
    LET top == {i \in 1..Len(cands) :
                   \A j \in 1..Len(cands) : cands[j].conf <= cands[i].conf}
    IN  cands[CHOOSE i \in top : \A j \in top : j <= i]

most_confident(cands) == MaxByConf(cands, 2, cands[1])

(* the loop of lines 381-389; min_distance starts at infinity *)
RECURSIVE ClosestFrom(_, _, _, _)
ClosestFrom(filtered, p, i, best) ==
    IF i > Len(filtered) THEN best
    ELSE IF best = NoneFrag
            \/ DistSqToBox(p, filtered[i].box) < DistSqToBox(p, best.box)
         THEN ClosestFrom(filtered, p, i + 1, filtered[i])
         ELSE ClosestFrom(filtered, p, i + 1, best)

ClosestWithinRadius(filtered, p) ==
    LET near == candidates_nearby(filtered, p)
    IN  ClosestFrom(near, p, 1, NoneFrag)

LastClosest(filtered, p) ==
    LET best == {i \in 1..Len(filtered) :
                    \A j \in 1..Len(filtered) :
                       DistSqToBox(p, filtered[i].box)
                         <= DistSqToBox(p, filtered[j].box)}
    IN  IF filtered = <<>> THEN NoneFrag
        ELSE filtered[CHOOSE i \in best : \A j \in best : j <= i]

closest_text_box(filtered, p) == ClosestFrom(filtered, p, 1, NoneFrag)

(* lines 374-375 *)
NearestNearby(cands, p) == ClosestFrom(cands, p, 1, NoneFrag)

best_nearby(cands, p) == MinByScore(cands, p, 2, cands[1])

find_text_box_at_mouse(filtered, p) ==
    LET inside == candidates_inside(filtered, p)
        near == candidates_nearby(filtered, p)
    IN  IF inside # <<>> THEN most_confident(inside)
        ELSE IF near # <<>> THEN best_nearby(near, p)
        ELSE closest_text_box(filtered, p)

----------------------------------------------------------------------------
(* TextProcessor, lines 158-212.  Code points outside ASCII are written by *)
(* name: "U4E16" and "U754C" are ideographs, "UFF0C" is the fullwidth      *)
(* comma and "U3002" the ideographic full stop.                            *)

AsciiLetters == {"a", "b", "c", "d", "e", "h", "l", "o", "r", "w", "H"}
CjkChars == {"U4E16", "U754C", "UFF0C", "U3002"}

(* detect_language, lines 161-170 *)
has_english(text) == \E i \in 1..Len(text) : text[i] \in AsciiLetters
has_cjk(text) == \E i \in 1..Len(text) : text[i] \in CjkChars

(* the exclusion lists of lines 192 and 209 *)
JiebaExcluded == {"UFF0C", "U3002", "!", "?", ",", ".", " "}
SpaceExcluded == {"UFF0C", "U3002", "!", "?", ",", ".", ";", ":", "\"", "'"}

(* the test of lines 208-209 on one match of \S+ *)
DropsPunctuationRuns(word) ==
    /\ Strip(word) # <<>>
    /\ \E i \in 1..Len(word) : word[i] \notin SpaceExcluded

KeepsRun(word) ==
    /\ Strip(word) # <<>>
    /\ ~(Len(word) = 1 /\ word[1] \in SpaceExcluded)

(* the test of line 192 on one segment *)
KeepsEverySegment(word) == TRUE

KeepsSegment(word) ==
    /\ Strip(word) # <<>>
    /\ ~(Len(word) = 1 /\ word[1] \in JiebaExcluded)

(* last position of the run of non-whitespace characters that starts at i *)
RECURSIVE RunLast(_, _)
RunLast(text, i) ==
    IF i < Len(text) /\ text[i + 1] \notin Whitespace
    THEN RunLast(text, i + 1) ELSE i

(* _space_tokenize, lines 196-212; offsets are 0-based, end exclusive *)
RECURSIVE SpaceTokensFrom(_, _)
SpaceTokensFrom(text, i) ==
    IF i > Len(text) THEN <<>>
    ELSE IF text[i] \in Whitespace THEN SpaceTokensFrom(text, i + 1)
    ELSE LET j == RunLast(text, i)
             word == SubSeq(text, i, j)
             rest == SpaceTokensFrom(text, j + 1)
         IN  IF KeepsRun(word)
             THEN <<[word |-> word, start |-> i - 1, end |-> j]>> \o rest
             ELSE rest

space_tokenize(text) == SpaceTokensFrom(text, 1)

(* jieba.tokenize is a library: it cuts the text into consecutive segments. *)
(* cuts is the set of positions after which it cuts.                        *)
Cuts(text) == SUBSET (1..(Len(text) - 1))

(* the cuts that matter: none when the text goes to _space_tokenize *)
SegmenterCuts(text) ==
    IF has_english(text) /\ ~has_cjk(text) THEN {{}} ELSE Cuts(text)

SegLast(text, cuts, i) ==
    IF \E c \in cuts : c >= i
    THEN CHOOSE c \in cuts : c >= i /\ \A c2 \in cuts : c2 >= i => c <= c2
    ELSE Len(text)

(* _jieba_tokenize, lines 187-194 *)
RECURSIVE JiebaTokensFrom(_, _, _)
JiebaTokensFrom(text, cuts, i) ==
    IF i > Len(text) THEN <<>>
    ELSE LET j == SegLast(text, cuts, i)
             word == SubSeq(text, i, j)
             rest == JiebaTokensFrom(text, cuts, j + 1)
         IN  IF KeepsSegment(word)
             THEN <<[word |-> word, start |-> i - 1, end |-> j]>> \o rest
             ELSE rest

jieba_tokenize(text, cuts) == JiebaTokensFrom(text, cuts, 1)

(* tokenize_text, lines 172-185: the tokenizer the text is handed to *)
SpaceWheneverLetters(text) ==
    IF has_english(text) THEN "space" ELSE "jieba"

tokenize_strategy(text) ==
    IF has_english(text) /\ has_cjk(text) THEN "jieba"
    ELSE IF has_english(text) THEN "space"
    ELSE "jieba"

tokenize_text(text, cuts) ==
    IF tokenize_strategy(text) = "space" THEN space_tokenize(text)
    ELSE jieba_tokenize(text, cuts)

----------------------------------------------------------------------------
(* _select_word_from_text, lines 408-444.  With L = len(text) and          *)
(* W = x2 - x1 the squared distance of a token's centre to the mouse,      *)
(* multiplied by (2 * L)^2, is the integer WordDistSq.                     *)

WordDistSq(tok, text, box, p) ==
    LET L == Len(text)
        nx == 2 * L * box[1] + (tok.start + tok.end) * (box[2] - box[1])
                - 2 * L * p[1]
        ny == L * (box[3] + box[4]) - 2 * L * p[2]
    IN  nx * nx + ny * ny

(* avg_char_width = box_width / text_length (line 422) is a binary         *)
(* floating-point quotient.  When W / L is a dyadic rational it is exact,  *)
(* and so is every product, sum and difference of lines 428-436: tokens    *)
(* whose centres are equally far from the mouse get equal distances.       *)
(* Otherwise the quotient is rounded, the two distances carry different    *)
(* rounding errors, and either of them can come out the smaller.           *)
ExactCharWidth(text, box) ==
    \E k \in 0..Len(text) : (2 ^ k * (box[2] - box[1])) % Len(text) = 0

(* whether rounding makes the later of two equally distant tokens the      *)
(* nearer one                                                              *)
RoundingOutcomes(text, box) ==
    IF Len(text) = 0 \/ ExactCharWidth(text, box) THEN {FALSE} ELSE BOOLEAN

(* the comparison of line 438 on the computed distances *)
RECURSIVE NearestWord(_, _, _, _, _, _, _)
NearestWord(toks, text, box, p, later, i, best) ==
    LET d == WordDistSq(toks[i], text, box, p)
        min_distance == WordDistSq(best, text, box, p)
    IN  IF i > Len(toks) THEN best
        ELSE IF d < min_distance \/ (d = min_distance /\ later)
             THEN NearestWord(toks, text, box, p, later, i + 1, toks[i])
             ELSE NearestWord(toks, text, box, p, later, i + 1, best)

(* text_length (line 417) when line 419 is reached: the function has     *)
(* returned at line 414 when there are no tokens                          *)
length_at_guard(text, cuts) ==
    IF tokenize_text(text, cuts) = <<>> THEN -1 ELSE Len(text)

NoneWhenNoTokens(text, box, p, cuts, later) ==
    LET positions == tokenize_text(text, cuts)
    IN  IF positions = <<>> \/ Len(text) = 0 THEN NoneWord
        ELSE NearestWord(positions, text, box, p, later, 2,
                         positions[1]).word

select_word_from_text(text, box, p, cuts, later) ==
    LET positions == tokenize_text(text, cuts)
    IN  IF positions = <<>> THEN text
        ELSE IF Len(text) = 0 THEN NoneWord
        ELSE NearestWord(positions, text, box, p, later, 2,
                         positions[1]).word

----------------------------------------------------------------------------
(* select_word_at_position, lines 287-331 *)

Truthy(word) == word # NoneWord /\ word # <<>>

relative_mouse_pos(pos, rect) == <<pos[1] - rect[1], pos[2] - rect[2]>>

select_target(results, pos, rect) ==
    IF results = <<>> \/ FilterResults(results) = <<>> THEN NoneFrag
    ELSE find_text_box_at_mouse(FilterResults(results),
                                relative_mouse_pos(pos, rect))

select_word_at_position(results, pos, rect, cuts, later) ==
    LET target == select_target(results, pos, rect)
        word == select_word_from_text(target.text, target.box,
                                      relative_mouse_pos(pos, rect), cuts,
                                      later)
    IN  IF target = NoneFrag THEN NoneWord
        ELSE IF Truthy(word) THEN word ELSE target.text

----------------------------------------------------------------------------
(* WordSelector applied to one OCR output: the inputs are drawn from the   *)
(* sets below, select_word_at_position is applied, and the filter is       *)
(* applied once more to its own output.                                    *)

(* _is_valid_ocr_result, lines 553-568 *)
GateIgnoresConfidence(ocr_result) ==
    \E i \in 1..Len(ocr_result) :
        Len(Strip(ocr_result[i].text)) >= MIN_TEXT_LENGTH

ValidWhenNotEmpty(ocr_result) == ocr_result # <<>>

is_valid_ocr_result(ocr_result) ==
    IF ocr_result = <<>> THEN FALSE
    ELSE Cardinality({i \in 1..Len(ocr_result) :
            /\ Len(Strip(ocr_result[i].text)) >= MIN_TEXT_LENGTH
            /\ ocr_result[i].conf >= CONFIDENCE_THRESHOLD}) > 0

MaxFrags == 3

TextAB == <<"a", "b">>
TextCjk == <<"U4E16", "U754C">>
BoxEdge == <<60, 100, 40, 60>>
BoxIn == <<90, 130, 30, 50>>
BoxNear == <<140, 180, 80, 100>>
BoxOut == <<141, 180, 30, 78>>

SelFragments ==
    [text : {TextAB}, box : {BoxEdge, BoxIn, BoxNear, BoxOut},
     conf : {6, 9}]
    \cup {[text |-> TextAB, box |-> BoxIn, conf |-> 5],
          [text |-> <<" ">>, box |-> BoxIn, conf |-> 9],
          [text |-> <<>>, box |-> BoxEdge, conf |-> 9]}

SelLists == UNION {[1..n -> SelFragments] : n \in 0..MaxFrags}

SelRect == <<500, 300, 200, 80>>
SelPoints == {<<600, 340>>, <<600, 355>>, <<700, 380>>, <<750, 500>>}

NoneRect == <<0, 0, 0, 0>>

----------------------------------------------------------------------------
(* src/core/hotkey_manager.py.  A hotkey string is the sequence of its     *)
(* parts between the '+' signs, each stripped and lowered (line 33).  A    *)
(* manager is the record                                                   *)
(*   pressed   KeyboardState.pressed_keys                                  *)
(*   state     current_state of the manager's state machine                *)
(*   feedback  FeedbackManager._current_feedback_state ("none" for None)   *)
(*   queued    slot calls posted to the main thread by signals emitted in  *)
(*             the listener thread, in order                               *)
(*   timers    number of QTimer.singleShot(3000, show_idle_signal.emit)    *)
(*             still to fire                                               *)
(*   signals   what the manager's own signals emitted in this handler      *)
(* A handler runs in the "main" thread or in pynput's "listener" thread;   *)
(* each handler is taken as one step.                                      *)

NoKey == "<None>"

(* HotkeyCombo.parse, lines 36-46: the modifier a part names *)
ModifierOf(part) ==
    IF part \in {"ctrl", "control"} THEN "ctrl"
    ELSE IF part \in {"alt", "option"} THEN "alt"
    ELSE IF part \in {"shift"} THEN "shift"
    ELSE IF part \in {"cmd", "command", "meta"} THEN "cmd"
    ELSE NoKey

(* HotkeyCombo.parse, lines 30-52; the key is NoKey where parse raises     *)
(* ValueError                                                              *)
parse(parts) ==
    LET keys == {i \in 1..Len(parts) : ModifierOf(parts[i]) = NoKey}
        last == CHOOSE i \in keys : \A j \in keys : j <= i
        key  == IF keys = {} THEN NoKey ELSE parts[last]
    IN  [modifiers |-> {ModifierOf(parts[i]) : i \in 1..Len(parts)} \ {NoKey},
         key |-> IF key = "" THEN NoKey ELSE key]

(* KeyboardState.is_modifier_pressed, lines 85-95 *)
modifier_map(modifier) ==
    IF modifier = "ctrl" THEN {"ctrl", "ctrl_l", "ctrl_r"}
    ELSE IF modifier = "alt" THEN {"alt", "alt_l", "alt_r"}
    ELSE IF modifier = "shift" THEN {"shift", "shift_l", "shift_r"}
    ELSE IF modifier = "cmd" THEN {"cmd", "cmd_l", "cmd_r"}
    ELSE {}

is_key_pressed(pressed, key) == key \in pressed

is_modifier_pressed(pressed, modifier) ==
    \E key \in modifier_map(modifier) : is_key_pressed(pressed, key)

(* KeyboardState.are_modifiers_pressed, lines 97-99 *)
AnyModifierPressed(pressed, modifiers) ==
    \E modifier \in modifiers : is_modifier_pressed(pressed, modifier)

are_modifiers_pressed(pressed, modifiers) ==
    \A modifier \in modifiers : is_modifier_pressed(pressed, modifier)

(* HotkeyStateMachine._calculate_new_state, lines 134-144 *)
calculate_new_state(pressed, combo) ==
    IF are_modifiers_pressed(pressed, combo.modifiers)
          /\ is_key_pressed(pressed, combo.key)
    THEN "activated"
    ELSE IF are_modifiers_pressed(pressed, combo.modifiers) THEN "ready"
    ELSE "idle"

(* FeedbackManager, lines 179-216 *)
show_ready_state(m) ==
    IF m.feedback # "ready" THEN [m EXCEPT !.feedback = "ready"] ELSE m

do_show_activated_state(m) ==
    [m EXCEPT !.feedback = "activated", !.timers = @ + 1]

do_show_error_state(m) ==
    [m EXCEPT !.feedback = "error", !.timers = @ + 1]

do_show_idle_state(m) ==
    IF m.feedback \in {"ready", "activated", "error"}
    THEN [m EXCEPT !.feedback = "idle"]
    ELSE m

RunSlot(m, slot) ==
    IF slot = "activated" THEN do_show_activated_state(m)
    ELSE IF slot = "error" THEN do_show_error_state(m)
    ELSE do_show_idle_state(m)

(* a signal of the FeedbackManager, which lives in the main thread: its    *)
(* slot runs at once when emitted there and is queued otherwise (lines     *)
(* 175-177, Qt's default connection)                                       *)
EmitToSlot(m, slot, thread) ==
    IF thread = "main" THEN RunSlot(m, slot)
    ELSE [m EXCEPT !.queued = Append(@, slot)]

show_activated_state(m, thread) == EmitToSlot(m, "activated", thread)

show_error_state(m, thread) == EmitToSlot(m, "error", thread)

show_idle_state(m, thread) == EmitToSlot(m, "idle", thread)

Signal(m, name) == [m EXCEPT !.signals = Append(@, name)]

(* CrossPlatformHotkeyManager, lines 591-608 *)
on_modifiers_ready(m) == Signal(show_ready_state(m), "state_ready")

on_hotkey_activated(m, thread) ==
    Signal(Signal(show_activated_state(m, thread), "state_activated"),
           "hotkey_activated")

on_state_idle(m, old_state, thread) ==
    IF old_state # "idle"
    THEN Signal(show_idle_state(m, thread), "state_idle")
    ELSE m

(* HotkeyStateMachine._notify_state_change with the callbacks that         *)
(* _setup_connections registers on a new state machine, lines 150-154      *)
(* and 512-515                                                             *)
notify_state_change(m, old_state, new_state, thread) ==
    IF new_state = "ready" THEN on_modifiers_ready(m)
    ELSE IF new_state = "activated" THEN on_hotkey_activated(m, thread)
    ELSE IF new_state = "idle" THEN on_state_idle(m, old_state, thread)
    ELSE m

(* HotkeyStateMachine.update_state, lines 125-132 *)
NotifiesEveryUpdate(m, combo, thread) ==
    LET new_state == calculate_new_state(m.pressed, combo)
    IN  notify_state_change([m EXCEPT !.state = new_state],
                            m.state, new_state, thread)

update_state(m, combo, thread) ==
    LET new_state == calculate_new_state(m.pressed, combo)
    IN  IF m.state # new_state
        THEN notify_state_change([m EXCEPT !.state = new_state],
                                 m.state, new_state, thread)
        ELSE m

(* KeyboardState._notify_state_change, lines 109-112: each of the n        *)
(* registered lambdas of line 510 reads self.state_machine when it is      *)
(* called, so all of them update the manager's current state machine       *)
RECURSIVE keyboard_notify(_, _, _, _)
keyboard_notify(m, combo, n, thread) ==
    IF n = 0 THEN m
    ELSE keyboard_notify(update_state(m, combo, thread), combo, n - 1, thread)

(* KeyboardState.add_key, remove_key and clear, lines 70-83 *)
add_key(m, key, combo, n, thread) ==
    keyboard_notify([m EXCEPT !.pressed = @ \cup {key}], combo, n, thread)

remove_key(m, key, combo, n, thread) ==
    keyboard_notify([m EXCEPT !.pressed = @ \ {key}], combo, n, thread)

clear(m, combo, n, thread) ==
    keyboard_notify([m EXCEPT !.pressed = {}], combo, n, thread)

(* CrossPlatformHotkeyManager.stop on a running manager, lines 552-557,    *)
(* called in the main thread                                               *)
stop(m, combo, n) == show_idle_state(clear(m, combo, n, "main"), "main")

HotIdle ==
    /\ hotkey_combo = parse(<<"alt", "c">>)
    /\ pressed_keys = {}
    /\ current_state = "idle"
    /\ state_callbacks = 1
    /\ running = FALSE
    /\ listener = FALSE
    /\ current_feedback_state = "none"
    /\ queued_slots = <<>>
    /\ idle_timers = 0
    /\ signals = <<>>
    /\ hotPc = "idle"

FbIdle ==
    /\ fb_geometry = NoneRect
    /\ is_showing = FALSE
    /\ view_visible = FALSE
    /\ timer_active = FALSE
    /\ timer_left = 0
    /\ since_show = 0
    /\ fb_rect = NoneRect
    /\ fbPc = "idle"

HoverIdle ==
    /\ stack = <<>>
    /\ current_capture_rect = NoneRect
    /\ dpi_scale = 4
    /\ has_external_tool = TRUE

SelIdle ==
    /\ ocr_results = <<>>
    /\ mouse_pos = <<0, 0>>
    /\ capture_rect = NoneRect
    /\ filtered_results = <<>>
    /\ target_text_box = NoneFrag
    /\ selected_word = NoneWord
    /\ refiltered = <<>>
    /\ gate_valid = "none"
    /\ text_length = -1
    /\ selPc = "idle"

TokIdle ==
    /\ tok_text = <<>>
    /\ tok_box = <<0, 0, 0, 0>>
    /\ tok_mouse = <<0, 0>>
    /\ tok_cuts = {}
    /\ tok_strategy = "none"
    /\ space_tokens = <<>>
    /\ jieba_tokens = <<>>
    /\ word_positions = <<>>
    /\ located_word = NoneWord
    /\ position_word = NoneWord
    /\ tokPc = "idle"

DpiIdle ==
    /\ cfg_size = <<0, 0>>
    /\ cfg_scale = 4
    /\ cfg_pos = <<0, 0>>
    /\ capture_region = NoneRect
    /\ dpiPc = "idle"

InitSel ==
    /\ ocr_results \in SelLists
    /\ mouse_pos \in SelPoints
    /\ capture_rect = SelRect
    /\ filtered_results = <<>>
    /\ target_text_box = NoneFrag
    /\ selected_word = NoneWord
    /\ refiltered = <<>>
    /\ gate_valid = "none"
    /\ text_length = -1
    /\ selPc = "input"
    /\ HoverIdle
    /\ TokIdle
    /\ DpiIdle
    /\ HotIdle
    /\ FbIdle

SelectWord ==
    /\ selPc = "input"
    /\ LET target == select_target(ocr_results, mouse_pos, capture_rect)
       IN  \E cuts \in SegmenterCuts(target.text),
              later \in RoundingOutcomes(target.text, target.box) :
             /\ filtered_results' = FilterResults(ocr_results)
             /\ target_text_box' = target
             /\ selected_word' = select_word_at_position(
                    ocr_results, mouse_pos, capture_rect, cuts, later)
             /\ text_length' = IF target = NoneFrag THEN -1
                               ELSE length_at_guard(target.text, cuts)
    /\ gate_valid' = IF is_valid_ocr_result(ocr_results)
                     THEN "valid" ELSE "invalid"
    /\ selPc' = "selected"
    /\ UNCHANGED <<ocr_results, mouse_pos, capture_rect, refiltered, hoverVars,
                   pureVars>>

FilterAgain ==
    /\ selPc = "selected"
    /\ refiltered' = FilterResults(filtered_results)
    /\ selPc' = "refiltered"
    /\ UNCHANGED <<ocr_results, mouse_pos, capture_rect, filtered_results,
                   target_text_box, selected_word, gate_valid, text_length,
                   hoverVars, pureVars>>

NextSel == SelectWord \/ FilterAgain

SpecSel == InitSel /\ [][NextSel]_vars

----------------------------------------------------------------------------
(* TextProcessor and the word locator applied to one fragment: the text,   *)
(* its box, the mouse position and jieba's segmentation are drawn from the *)
(* sets below; the text is tokenized, then the word is located.            *)

TextHelloWorld == <<"h", "e", "l", "l", "o", " ", "w", "o", "r", "l", "d">>
TextMixed == <<"H", "e", "l", "l", "o", "U4E16", "U754C">>

TokTexts ==
    {TextHelloWorld, TextMixed, TextAB, TextCjk,
     <<"a", " ", "b">>,
     <<" ", "a", "\t", "b", " ">>,
     <<"a", " ", ",", " ", ".", ".", " ", ";">>,
     <<"U4E16", ";", "U754C", "UFF0C">>,
     <<"U4E16", " ", "U754C">>,
     <<"1", "2">>,
     <<",", ".">>,
     <<",">>,
     <<";">>,
     <<" ">>,
     <<>>}

TokBoxes == {<<0, 110, 0, 20>>, <<0, 120, 0, 20>>, <<10, 58, 30, 50>>}
TokPoints == {<<75, 10>>, <<60, 10>>, <<34, 40>>, <<5, 12>>}
TokRect == <<0, 0, 200, 80>>

InitTok ==
    /\ tok_text \in TokTexts
    /\ tok_box \in TokBoxes
    /\ tok_mouse \in TokPoints
    /\ tok_cuts \in Cuts(tok_text)
    /\ tok_strategy = "none"
    /\ space_tokens = <<>>
    /\ jieba_tokens = <<>>
    /\ word_positions = <<>>
    /\ located_word = NoneWord
    /\ position_word = NoneWord
    /\ tokPc = "input"
    /\ SelIdle
    /\ HoverIdle
    /\ DpiIdle
    /\ HotIdle
    /\ FbIdle

Tokenize ==
    /\ tokPc = "input"
    /\ tok_strategy' = tokenize_strategy(tok_text)
    /\ space_tokens' = space_tokenize(tok_text)
    /\ jieba_tokens' = jieba_tokenize(tok_text, tok_cuts)
    /\ word_positions' = tokenize_text(tok_text, tok_cuts)
    /\ tokPc' = "tokenized"
    /\ UNCHANGED <<tok_text, tok_box, tok_mouse, tok_cuts, located_word,
                   position_word, selVars, hoverVars, dpiVars, hotVars, fbVars>>

Locate ==
    /\ tokPc = "tokenized"
    /\ \E later \in RoundingOutcomes(tok_text, tok_box) :
          /\ located_word' = select_word_from_text(
                                tok_text, tok_box, tok_mouse, tok_cuts, later)
          /\ position_word' = select_word_at_position(
                <<[text |-> tok_text, box |-> tok_box, conf |-> 9]>>,
                tok_mouse, TokRect, tok_cuts, later)
    /\ tokPc' = "located"
    /\ UNCHANGED <<tok_text, tok_box, tok_mouse, tok_cuts, tok_strategy,
                   space_tokens, jieba_tokens, word_positions, selVars,
                   hoverVars, dpiVars, hotVars, fbVars>>

NextTok == Tokenize \/ Locate

SpecTok == InitTok /\ [][NextTok]_vars

----------------------------------------------------------------------------
(* Predicates on fragments, boxes and points in which the properties are   *)
(* stated; they are written from the definitions and not through the       *)
(* operators above.                                                        *)

RelPoint == <<mouse_pos[1] - capture_rect[1], mouse_pos[2] - capture_rect[2]>>

BoxContains(box, p) ==
    p[1] \in box[1]..box[2] /\ p[2] \in box[3]..box[4]

WithinRadius(box, p) ==
    /\ p[1] \in (box[1] - MOUSE_INFLUENCE_RADIUS)..(box[2] + MOUSE_INFLUENCE_RADIUS)
    /\ p[2] \in (box[3] - MOUSE_INFLUENCE_RADIUS)..(box[4] + MOUSE_INFLUENCE_RADIUS)

NonBlank(t) == {i \in 1..Len(t) : t[i] \notin Whitespace}

TrimmedLen(t) ==
    IF NonBlank(t) = {} THEN 0
    ELSE LET first == CHOOSE i \in NonBlank(t) : \A j \in NonBlank(t) : i <= j
             last == CHOOSE i \in NonBlank(t) : \A j \in NonBlank(t) : i >= j
         IN  last - first + 1

Kept(f) == f.conf >= CONFIDENCE_THRESHOLD /\ TrimmedLen(f.text) >= MIN_TEXT_LENGTH

KeptIdx(res) == {i \in 1..Len(res) : Kept(res[i])}

Rank(res, i) == Cardinality({j \in KeptIdx(res) : j <= i})

ContainingIdx(res, p) == {i \in KeptIdx(res) : BoxContains(res[i].box, p)}

RadiusIdx(res, p) == {i \in KeptIdx(res) : WithinRadius(res[i].box, p)}

----------------------------------------------------------------------------
(* HoverTool.capture_at_cursor and capture_text_at_position, lines 468-528, *)
(* started by MainWindow.start_hover and by the tray menu.                  *)
(*                                                                          *)
(* An invocation is a record                                                *)
(*   pc      "tier"   about to begin the tier                               *)
(*           "pump1"  inside processEvents() of _show_visual_feedback       *)
(*           "pump2"  inside processEvents() of line 500                    *)
(*           "done"   about to return; "raised": an exception is leaving    *)
(*   tier    1, 2, 3 for small, medium, large                               *)
(*   pos     the cursor position read by capture_at_cursor                  *)
(*   log     what the invocation has done so far, in order; "clipboard" is  *)
(*           the write of the word to the system clipboard, "no_word" the   *)
(*           else branch of line 516                                        *)
(*   last    what the capture+OCR call of this tier produced, "none"        *)
(*           before the call                                                *)
(*   usable  the number of tiers whose OCR output held a fragment that      *)
(*           passes the filter                                              *)
(*   word    the word handed to _handle_successful_recognition              *)
(*   frag    the fragment that word was selected from                       *)
(*   clip    the string written to the clipboard, NoneWord if none was      *)
(*   emitted the string word_found was emitted with, NoneWord if it was not *)
(*   regions the rectangles the invocation has used, in order, as records   *)
(*           [what, tier, rect, point]: "shown" is the rectangle emitted    *)
(*           with capture_area_changed and given to VisualFeedback.show,    *)
(*           "grabbed" the one capture_at_position computes from its        *)
(*           arguments and gives to grabWindow once a screen is found, both *)
(*           with the global position they were built around; "query" is    *)
(*           the capture_rect                                               *)
(*           given to select_word_at_position with the relative mouse       *)
(*           position it computes                                           *)

MaxDepth == 2

LargestFirst == <<LARGE_SIZE, MEDIUM_SIZE, SMALL_SIZE>>

size_configs == <<SMALL_SIZE, MEDIUM_SIZE, LARGE_SIZE>>
DpiScales == {4, 8}
CursorPositions == {<<600, 340>>, <<30, 20>>}

Ev(e, t) == [e |-> e, tier |-> t]

Emit(f, e) == [f EXCEPT !.log = Append(@, Ev(e, f.tier))]

(* _adjust_capture_size, lines 233-238: int(width * dpi_scale) *)
AdjustRoundsToNearest(size, scale) ==
    <<(size[1] * scale + 2) \div 4, (size[2] * scale + 2) \div 4>>

adjust_capture_size(size, scale) ==
    <<(size[1] * scale) \div 4, (size[2] * scale) \div 4>>

(* _create_capture_region, lines 530-534 *)
create_capture_region(pos, width, height) ==
    <<pos[1] - width \div 2, pos[2] - height \div 2, width, height>>

(* capture_at_position, lines 247-255: the rectangle given to grabWindow *)
GrabFromCorner(pos, width, height) == <<pos[1], pos[2], width, height>>

grab_region(pos, width, height) ==
    <<pos[1] - width \div 2, pos[2] - height \div 2, width, height>>

Note(f, what, rect, point) ==
    [f EXCEPT !.regions = Append(@, [what |-> what, tier |-> f.tier,
                                     rect |-> rect, point |-> point])]

TierRect(f) ==
    LET adj == adjust_capture_size(size_configs[f.tier], dpi_scale)
    IN  create_capture_region(f.pos, adj[1], adj[2])

(* The capture region of one configured size: the sizes of CaptureConfig,  *)
(* those of the first HoverTool (src/hover_tool.py:19-26), whose           *)
(* _adjust_capture_size and _create_capture_region are the same, and two   *)
(* that do not scale to whole pixels.  A scale in quarters is an exact     *)
(* double, so width * dpi_scale is computed without rounding.              *)
LegacySizes == {<<160, 60>>, <<240, 100>>, <<300, 120>>}
CfgSizes ==
    {SMALL_SIZE, MEDIUM_SIZE, LARGE_SIZE} \cup LegacySizes
        \cup {<<150, 50>>, <<201, 81>>}
CfgScales == {4, 5, 6, 7, 8, 12}
CfgPositions == {<<600, 340>>, <<30, 20>>, <<0, 0>>}

InitDpi ==
    /\ cfg_size \in CfgSizes
    /\ cfg_scale \in CfgScales
    /\ cfg_pos \in CfgPositions
    /\ capture_region = NoneRect
    /\ dpiPc = "input"
    /\ SelIdle
    /\ HoverIdle
    /\ TokIdle
    /\ HotIdle
    /\ FbIdle

(* lines 490-491 for one size of the loop *)
AdjustAndCreate ==
    /\ dpiPc = "input"
    /\ LET adj == adjust_capture_size(cfg_size, cfg_scale)
       IN  capture_region' = create_capture_region(cfg_pos, adj[1], adj[2])
    /\ dpiPc' = "adjusted"
    /\ UNCHANGED <<cfg_size, cfg_scale, cfg_pos, selVars, hoverVars, tokVars,
                   hotVars, fbVars>>

NextDpi == AdjustAndCreate

SpecDpi == InitDpi /\ [][NextDpi]_vars

(* the handler of lines 525-528 *)
ExceptLetsThrough(f) == [f EXCEPT !.pc = "raised"]

ExceptHandler(f) == [Emit(f, "status_error") EXCEPT !.pc = "done"]

(* the end of one round of the loop of line 486, and lines 521-523 *)
AdvanceOverTwo(f) ==
    IF f.tier < 2
    THEN [f EXCEPT !.tier = @ + 1, !.pc = "tier", !.last = "none"]
    ELSE [Emit(f, "status_notfound") EXCEPT !.pc = "done"]

Advance(f) ==
    IF f.tier < Len(size_configs)
    THEN [f EXCEPT !.tier = @ + 1, !.pc = "tier", !.last = "none"]
    ELSE [Emit(f, "status_notfound") EXCEPT !.pc = "done"]

(* the return of line 515 *)
FallThroughAfterWord(f) == Advance(f)

ReturnAfterWord(f) == [f EXCEPT !.pc = "done"]

(* _handle_successful_recognition, lines 570-579 *)
handle_successful_recognition(f, word, clipOk) ==
    LET f1 == [f EXCEPT !.word = word]
    IN  IF clipOk
        THEN Emit([Emit([Emit(f1, "clipboard") EXCEPT !.clip = word],
                        "word_found") EXCEPT !.emitted = word],
                  "status_ok")
        ELSE Emit(f1, "raise_clipboard")

(* capture_at_cursor, lines 468-472, up to the loop *)
NewInvocation(pos) ==
    [pc |-> "tier", tier |-> 1, pos |-> pos,
     log |-> <<Ev("status_busy", 0)>>, last |-> "none", usable |-> 0,
     word |-> NoneWord, frag |-> NoneFrag, clip |-> NoneWord,
     emitted |-> NoneWord, regions |-> <<>>]

Top == stack[Len(stack)]

SetTop(f) == [stack EXCEPT ![Len(stack)] = f]

(* the event loop runs: no invocation is in flight, or the innermost one   *)
(* is inside processEvents()                                               *)
(* line 503: capture_at_position is called with the adjusted size *)
Grab(f) ==
    LET adj == adjust_capture_size(size_configs[f.tier], dpi_scale)
    IN  Note(f, "grabbed", grab_region(f.pos, adj[1], adj[2]), f.pos)

EventLoopRuns ==
    IF stack = <<>> THEN TRUE ELSE Top.pc \in {"pump1", "pump2"}

(* what the OCR engine may return for a capture: fragments with boxes in   *)
(* image coordinates                                                       *)
TextHello == <<"h", "e", " ", "w", "o">>
OcrOutputs ==
    {<<>>,
     <<[text |-> TextAB, box |-> <<60, 140, 30, 50>>, conf |-> 5]>>,
     <<[text |-> <<" ">>, box |-> <<60, 140, 30, 50>>, conf |-> 9]>>,
     <<[text |-> TextAB, box |-> <<60, 140, 30, 50>>, conf |-> 5],
       [text |-> TextHello, box |-> <<50, 150, 30, 50>>, conf |-> 8]>>,
     <<[text |-> TextCjk, box |-> <<200, 240, 60, 80>>, conf |-> 6]>>}

OutputClass(r) ==
    IF r = <<>> THEN "empty"
    ELSE IF \E i \in 1..Len(r) : Kept(r[i]) THEN "usable" ELSE "rejected"

InitHover ==
    /\ stack = <<>>
    /\ current_capture_rect = NoneRect
    /\ dpi_scale \in DpiScales
    /\ has_external_tool \in BOOLEAN

Init == InitHover /\ SelIdle /\ TokIdle /\ DpiIdle /\ HotIdle /\ FbIdle

(* MainWindow.start_hover, main_window.py:615-624, on mouse_clicked *)
StartHover ==
    /\ EventLoopRuns
    /\ Len(stack) < MaxDepth
    /\ has_external_tool
    /\ \E pos \in CursorPositions :
          stack' = Append(stack, NewInvocation(pos))
    /\ UNCHANGED <<current_capture_rect, dpi_scale, has_external_tool,
                   selVars, pureVars>>

(* start_hover when no external tool is configured: a warning, no capture *)
StartHoverRefused ==
    /\ EventLoopRuns
    /\ ~has_external_tool
    /\ UNCHANGED vars

(* the tray menu entry, main_window.py:527 *)
TrayHover ==
    /\ EventLoopRuns
    /\ Len(stack) < MaxDepth
    /\ \E pos \in CursorPositions :
          stack' = Append(stack, NewInvocation(pos))
    /\ UNCHANGED <<current_capture_rect, dpi_scale, has_external_tool,
                   selVars, pureVars>>

(* lines 486-497 and _show_visual_feedback, lines 536-550, up to its       *)
(* processEvents(); feedbackOk is whether VisualFeedback.show returns      *)
ShowFeedback ==
    /\ stack # <<>>
    /\ Top.pc = "tier"
    /\ current_capture_rect' = TierRect(Top)
    /\ \E feedbackOk \in BOOLEAN :
          LET f1 == Note(Emit(Top, "area"), "shown", TierRect(Top), Top.pos)
          IN  stack' = SetTop(
                IF feedbackOk THEN [Emit(f1, "show") EXCEPT !.pc = "pump1"]
                ELSE ExceptHandler(Emit(f1, "raise_feedback")))
    /\ UNCHANGED <<dpi_scale, has_external_tool,
                   selVars, pureVars>>

(* processEvents() of line 550 returns; line 500 calls it again *)
PumpReturns ==
    /\ stack # <<>>
    /\ Top.pc = "pump1"
    /\ stack' = SetTop([Top EXCEPT !.pc = "pump2"])
    /\ UNCHANGED <<current_capture_rect, dpi_scale, has_external_tool,
                   selVars, pureVars>>

(* line 503 with capture_at_position returning None: no screen at the      *)
(* point (line 245) or a null screenshot (line 258)                        *)
CaptureNone ==
    /\ stack # <<>>
    /\ Top.pc = "pump2"
    /\ \E why \in {"no_screen", "null_shot"} :
          stack' = SetTop(Advance(
                      Grab([Emit(Top, "capture") EXCEPT !.last = why])))
    /\ UNCHANGED <<current_capture_rect, dpi_scale, has_external_tool,
                   selVars, pureVars>>

(* line 503 with screenAt, grabWindow or the OCR engine raising *)
CaptureRaises ==
    /\ stack # <<>>
    /\ Top.pc = "pump2"
    /\ stack' = SetTop(ExceptHandler(
                  Emit(Grab([Emit(Top, "capture") EXCEPT !.last = "raise"]),
                       "raise_capture")))
    /\ UNCHANGED <<current_capture_rect, dpi_scale, has_external_tool,
                   selVars, pureVars>>

(* lines 503-519 with the OCR engine returning a list; fails names the    *)
(* collaborator that raises once a fragment has been selected, if any      *)
CaptureOcr ==
    /\ stack # <<>>
    /\ Top.pc = "pump2"
    /\ \E r \in OcrOutputs, fails \in {"none", "tokenizer", "clipboard"} :
          LET f0 == [Emit(Top, "capture") EXCEPT
                        !.last = OutputClass(r),
                        !.usable = @ + (IF OutputClass(r) = "usable"
                                        THEN 1 ELSE 0)]
              rect == TierRect(Top)
              f1 == IF is_valid_ocr_result(r)
                    THEN Note(Grab(f0), "query", rect,
                              relative_mouse_pos(Top.pos, rect))
                    ELSE Grab(f0)
              target == select_target(r, Top.pos, rect)
          IN  \E cuts \in SegmenterCuts(target.text),
                 later \in RoundingOutcomes(target.text, target.box) :
                LET word == select_word_at_position(r, Top.pos, rect, cuts,
                                                    later)
                IN  stack' = SetTop(
                      IF ~is_valid_ocr_result(r) THEN Advance(f1)
                      ELSE IF fails = "tokenizer"
                      THEN ExceptHandler(Emit(f1, "raise_tokenizer"))
                      ELSE IF ~Truthy(word) THEN Advance(Emit(f1, "no_word"))
                      ELSE IF fails = "clipboard"
                      THEN ExceptHandler(handle_successful_recognition(
                             [f1 EXCEPT !.frag = target], word, FALSE))
                      ELSE ReturnAfterWord(handle_successful_recognition(
                             [f1 EXCEPT !.frag = target], word, TRUE)))
    /\ UNCHANGED <<current_capture_rect, dpi_scale, has_external_tool,
                   selVars, pureVars>>

(* capture_text_at_position and capture_at_cursor return *)
Return ==
    /\ stack # <<>>
    /\ Top.pc \in {"done", "raised"}
    /\ stack' = SubSeq(stack, 1, Len(stack) - 1)
    /\ UNCHANGED <<current_capture_rect, dpi_scale, has_external_tool,
                   selVars, pureVars>>

Next ==
    \/ StartHover
    \/ StartHoverRefused
    \/ TrayHover
    \/ ShowFeedback
    \/ PumpReturns
    \/ CaptureNone
    \/ CaptureRaises
    \/ CaptureOcr
    \/ Return

Spec == Init /\ [][Next]_vars

----------------------------------------------------------------------------
(* Properties of capture_text_at_position, stated on each invocation       *)

Invocations == {stack[i] : i \in 1..Len(stack)}

Count(f, e) == Cardinality({i \in 1..Len(f.log) : f.log[i].e = e})

Did(f, e, t) == \E i \in 1..Len(f.log) : f.log[i] = Ev(e, t)

Raises == {"raise_feedback", "raise_capture", "raise_tokenizer",
           "raise_clipboard"}

Raised(f) == \E i \in 1..Len(f.log) : f.log[i].e \in Raises

Statuses == {"status_ok", "status_notfound", "status_error"}

(* the tiers of the capture+OCR calls, in the order they were made *)
CapturedTiers(f) ==
    LET caps == SelectSeq(f.log, LAMBDA ev : ev.e = "capture")
    IN  [i \in 1..Len(caps) |-> caps[i].tier]

(* C1  Tier short-circuit: once a tier's capture+OCR has yielded a         *)
(* selected word the invocation is over; capture+OCR and the feedback hook *)
(* have been invoked once for that tier and each smaller one and for no    *)
(* larger one, so a word at the small tier means exactly one capture.      *)
C1_TierShortCircuit ==
    \A f \in Invocations :
      f.word # NoneWord =>
        /\ f.pc = "done"
        /\ CapturedTiers(f) = [i \in 1..f.tier |-> i]
        /\ Count(f, "area") = f.tier
        /\ Count(f, "show") = f.tier
        /\ \A i \in 1..Len(f.log) : f.log[i].tier <= f.tier
        /\ Did(f, "clipboard", f.tier) \/ Did(f, "raise_clipboard", f.tier)

(* the small tier yields a word: one capture, one feedback *)
C1_Witness ==
    \E f \in Invocations :
      /\ f.pc = "done"
      /\ f.word # NoneWord
      /\ Did(f, "word_found", 1)
      /\ Count(f, "capture") = 1
      /\ Count(f, "area") = 1

(* C2  Tier-local error recovery: an invocation in which the               *)
(* capture-and-recognize call raised during the small or the medium tier   *)
(* has gone on to attempt the next tier by the time it returns.            *)
C2_TierLocalRecovery ==
    \A f \in Invocations : \A k \in {1, 2} :
      (f.pc = "done" /\ Did(f, "raise_capture", k)) => Did(f, "capture", k + 1)

(* C3  Exhaustion: an invocation that returns without any tier having      *)
(* yielded a usable OCR output, and without an error, has attempted the    *)
(* small, the medium and the large tier in that order, has emitted the     *)
(* 'not found' status once, as the last thing it did, and has not emitted  *)
(* word_found.                                                             *)
C3_Exhaustion ==
    \A f \in Invocations :
      (f.pc = "done" /\ f.usable = 0 /\ ~Raised(f)) =>
        /\ CapturedTiers(f) = <<1, 2, 3>>
        /\ Count(f, "status_notfound") = 1
        /\ f.log[Len(f.log)].e = "status_notfound"
        /\ Count(f, "word_found") = 0
        /\ Count(f, "status_ok") = 0
        /\ f.word = NoneWord

(* the large tier ended on fragments that the filter rejects *)
C3_Witness ==
    \E f \in Invocations :
      /\ f.pc = "done"
      /\ f.usable = 0
      /\ ~Raised(f)
      /\ f.last = "rejected"
      /\ Count(f, "status_notfound") = 1

(* C4  No exception escapes: whichever collaborator fails, at whichever    *)
(* tier, the invocation comes to its return, never to an exception leaving *)
(* it, and the last thing it did is emit a status message.                 *)
C4_NoExceptionEscapes ==
    \A f \in Invocations :
      /\ f.pc # "raised"
      /\ Raised(f) => (f.pc = "done" /\ f.log[Len(f.log)].e = "status_error")
      /\ f.pc = "done" => f.log[Len(f.log)].e \in Statuses

(* the clipboard fails at the large tier, inside a nested invocation *)
C4_Witness ==
    /\ Len(stack) = 2
    /\ stack[2].pc = "done"
    /\ Did(stack[2], "raise_clipboard", 3)
    /\ stack[2].log[Len(stack[2].log)].e = "status_error"

(* C5  Single invocation at a time: at most one capture_at_cursor          *)
(* invocation is in flight at any moment.                                  *)
C5_SingleInvocation == Len(stack) <= 1

----------------------------------------------------------------------------
(* Properties of the WordSelector *)

(* C6  Containment priority: when the query point lies inside the box of   *)
(* exactly one filtered fragment (bounds inclusive), that fragment is the  *)
(* one _find_text_box_at_mouse returns, whatever the confidences and       *)
(* distances of the others.                                                *)
C6_ContainmentPriority ==
    (selPc # "input" /\ Cardinality(ContainingIdx(ocr_results, RelPoint)) = 1)
    => \E i \in ContainingIdx(ocr_results, RelPoint) :
          target_text_box = ocr_results[i]

(* the point is on the top edge band of the only containing box, and a     *)
(* more confident fragment that does not contain it is in the list         *)
C6_Witness ==
    /\ selPc = "selected"
    /\ Cardinality(ContainingIdx(ocr_results, RelPoint)) = 1
    /\ \E i \in ContainingIdx(ocr_results, RelPoint) :
          /\ target_text_box = ocr_results[i]
          /\ RelPoint[1] = ocr_results[i].box[2]
          /\ \E j \in KeptIdx(ocr_results) :
                /\ j < i
                /\ ocr_results[j].conf > ocr_results[i].conf
                /\ ~BoxContains(ocr_results[j].box, RelPoint)

(* C7  Monotonic fallback: when no filtered fragment contains the point    *)
(* and at least one is within the influence radius, the fragment returned  *)
(* is within the influence radius.                                         *)
C7_MonotonicFallback ==
    (/\ selPc # "input"
     /\ ContainingIdx(ocr_results, RelPoint) = {}
     /\ RadiusIdx(ocr_results, RelPoint) # {})
    => \E i \in RadiusIdx(ocr_results, RelPoint) :
          target_text_box = ocr_results[i]

(* a fragment outside the radius is closer than the one returned *)
C7_Witness ==
    /\ selPc = "selected"
    /\ ContainingIdx(ocr_results, RelPoint) = {}
    /\ \E i \in RadiusIdx(ocr_results, RelPoint) :
          /\ target_text_box = ocr_results[i]
          /\ \E j \in KeptIdx(ocr_results) \ RadiusIdx(ocr_results, RelPoint) :
                DistSqToBox(RelPoint, ocr_results[j].box)
                  < DistSqToBox(RelPoint, ocr_results[i].box)

(* C8  Selector totality: with a non-empty filtered list the selector      *)
(* returns a fragment of that list; with an empty OCR output or one whose  *)
(* fragments are all rejected, select_word_at_position returns None.       *)
C8_SelectorTotality ==
    selPc # "input" =>
      IF KeptIdx(ocr_results) # {}
      THEN \E i \in KeptIdx(ocr_results) : target_text_box = ocr_results[i]
      ELSE target_text_box = NoneFrag /\ selected_word = NoneWord

(* the global-nearest rule: nothing contains the point or is within the    *)
(* radius, and a fragment is returned all the same                         *)
C8_Witness ==
    /\ selPc = "selected"
    /\ Cardinality(KeptIdx(ocr_results)) >= 2
    /\ RadiusIdx(ocr_results, RelPoint) = {}
    /\ target_text_box # NoneFrag
    /\ selected_word # NoneWord

FilterIsExact ==
    selPc # "input" =>
      /\ Len(filtered_results) = Cardinality(KeptIdx(ocr_results))
      /\ \A i \in KeptIdx(ocr_results) :
            filtered_results[Rank(ocr_results, i)] = ocr_results[i]

(* C9  Candidate filter: the filtered list is exactly the fragments with   *)
(* confidence >= CONFIDENCE_THRESHOLD and trimmed length >=                 *)
(* MIN_TEXT_LENGTH, in the order of the OCR output, and the OCR output     *)
(* list is left as it was.                                                 *)
C9_CandidateFilter ==
    /\ []FilterIsExact
    /\ [][ocr_results' = ocr_results]_vars

(* a fragment at the threshold is kept, a rejected one stands between two  *)
(* kept ones                                                               *)
C9_Witness ==
    /\ selPc = "selected"
    /\ Len(ocr_results) = 3
    /\ KeptIdx(ocr_results) = {1, 3}
    /\ ocr_results[1].conf = CONFIDENCE_THRESHOLD
    /\ ocr_results[1] # ocr_results[3]
    /\ filtered_results = <<ocr_results[1], ocr_results[3]>>

(* C10  Filter idempotence: the filter applied to its own output gives     *)
(* that output again.                                                      *)
C10_FilterIdempotent ==
    selPc = "refiltered" => refiltered = filtered_results

C10_Witness ==
    /\ selPc = "refiltered"
    /\ Len(filtered_results) >= 2
    /\ Len(filtered_results) < Len(ocr_results)
    /\ refiltered = filtered_results

----------------------------------------------------------------------------
(* Properties of the TextProcessor and the word locator, under SpecTok     *)

TokFragment == [text |-> tok_text, box |-> tok_box, conf |-> 9]

(* C11: when tokenizing the selected fragment's text yields no token,      *)
(* _select_word_from_text returns the fragment's text unchanged, and for a *)
(* fragment that passes the filter that text is the result of              *)
(* select_word_at_position.                                                *)
C11_TokenizerFallback ==
    (tokPc = "located" /\ word_positions = <<>>) =>
        /\ located_word = tok_text
        /\ Kept(TokFragment) => position_word = tok_text

C11_Witness ==
    /\ tokPc = "located"
    /\ tok_text = <<",", ".">>
    /\ tok_cuts = {1}
    /\ word_positions = <<>>
    /\ located_word = tok_text
    /\ position_word = tok_text

(* twice the text length times the horizontal offset of the centre of     *)
(* token i, x1 + ((start + end) / 2) * (W / L), from the mouse; every      *)
(* token's centre is at the box's vertical centre, so the nearest token is *)
(* the one with the smallest offset                                        *)
CentreOffset(i) ==
    LET n == 2 * Len(tok_text) * (tok_box[1] - tok_mouse[1])
             + (word_positions[i].start + word_positions[i].end)
               * (tok_box[2] - tok_box[1])
    IN  IF n < 0 THEN 0 - n ELSE n

NearestTokens ==
    {i \in 1..Len(word_positions) :
        \A j \in 1..Len(word_positions) : CentreOffset(i) <= CentreOffset(j)}

NearestTokenLocated ==
    (tokPc = "located" /\ word_positions # <<>>) =>
        \E i \in NearestTokens : located_word = word_positions[i].word

(* C12: whenever tokenization yields at least one token, the word locator  *)
(* returns the token whose centre is at minimum Euclidean distance from    *)
(* the mouse, the first such token in text order on a tie; for "hello      *)
(* world" in the box (0,110,0,20) and the mouse at (75,10) it returns      *)
(* "world".                                                                *)
C12_WordLocator ==
    (tokPc = "located" /\ word_positions # <<>>) =>
        /\ \E i \in NearestTokens :
              /\ \A j \in NearestTokens : i <= j
              /\ located_word = word_positions[i].word
        /\ (tok_text = TextHelloWorld /\ tok_box = <<0, 110, 0, 20>>
                /\ tok_mouse = <<75, 10>>)
              => located_word = <<"w", "o", "r", "l", "d">>

(* C13: tokenize_text hands the text to whitespace tokenization exactly    *)
(* when it has at least one ASCII letter and no CJK character; every other *)
(* text, a mixed one such as "Hello" followed by two ideographs and a text *)
(* with no ASCII letter at all included, goes to dictionary segmentation.  *)
C13_StrategyDispatch ==
    tokPc \in {"tokenized", "located"} =>
        LET letters == {i \in 1..Len(tok_text) : tok_text[i] \in AsciiLetters}
            cjk == {i \in 1..Len(tok_text) : tok_text[i] \in CjkChars}
        IN  /\ tok_strategy \in {"space", "jieba"}
            /\ tok_strategy = "space" <=> (letters # {} /\ cjk = {})
            /\ tok_strategy = "space" => word_positions = space_tokens
            /\ tok_strategy = "jieba" => word_positions = jieba_tokens
            /\ tok_text = TextMixed => tok_strategy = "jieba"

C13_Witness ==
    /\ tokPc = "tokenized"
    /\ tok_text = TextMixed
    /\ tok_cuts = {5}
    /\ tok_strategy = "jieba"
    /\ Len(word_positions) = 2
    /\ word_positions # space_tokens

----------------------------------------------------------------------------
(* Properties of the capture region, under SpecDpi                         *)

(* C14: for the device pixel ratio r a configured size (w, h) is adjusted  *)
(* to (trunc(w * r), trunc(h * r)), each dimension on its own, and the     *)
(* capture region has exactly that size; for r = 2 and the size (160, 60)  *)
(* the region is 320 by 120.  r is cfg_scale / 4.                          *)
C14_DpiScaling ==
    dpiPc = "adjusted" =>
        /\ 4 * capture_region[3] <= cfg_size[1] * cfg_scale
        /\ cfg_size[1] * cfg_scale < 4 * (capture_region[3] + 1)
        /\ 4 * capture_region[4] <= cfg_size[2] * cfg_scale
        /\ cfg_size[2] * cfg_scale < 4 * (capture_region[4] + 1)
        /\ (cfg_scale = 8 /\ cfg_size = <<160, 60>>)
              => (capture_region[3] = 320 /\ capture_region[4] = 120)

C14_Witness ==
    /\ dpiPc = "adjusted"
    /\ cfg_scale = 8
    /\ cfg_size = <<160, 60>>
    /\ capture_region[3] = 320
    /\ capture_region[4] = 120

----------------------------------------------------------------------------
(* Properties of the result sink, under Spec                               *)

WordSelected(f) == f.word # NoneWord

EventsAt(f, e) == {i \in 1..Len(f.log) : f.log[i].e = e}

TokenOrText(f) ==
    \/ f.emitted = f.frag.text
    \/ \E cuts \in Cuts(f.frag.text) :
          \E i \in 1..Len(tokenize_text(f.frag.text, cuts)) :
             tokenize_text(f.frag.text, cuts)[i].word = f.emitted

(* what is emitted and written, when something is *)
SinkContent ==
    \A f \in Invocations :
        f.pc = "done" =>
            /\ Count(f, "word_found") <= 1
            /\ Count(f, "word_found") = 1 =>
                  /\ WordSelected(f)
                  /\ f.emitted = f.word
                  /\ f.emitted \notin {<<>>, NoneWord}
                  /\ TokenOrText(f)
                  /\ f.clip = f.emitted
                  /\ \A i \in EventsAt(f, "word_found") :
                        \E j \in EventsAt(f, "clipboard") : j < i
            /\ ~WordSelected(f) =>
                  /\ Count(f, "word_found") = 0
                  /\ Count(f, "clipboard") = 0
                  /\ f.clip = NoneWord

(* C15: per invocation of capture_text_at_position word_found is emitted   *)
(* exactly once if a word was selected and never otherwise; the emitted    *)
(* string is non-empty, is a token of the selected fragment or that        *)
(* fragment's full text, and is the string written to the clipboard, which *)
(* is written before word_found is emitted; when no word is selected the   *)
(* clipboard is not written.                                               *)
C15_ResultSink ==
    /\ SinkContent
    /\ \A f \in Invocations :
          (f.pc = "done" /\ WordSelected(f)) => Count(f, "word_found") = 1

----------------------------------------------------------------------------
(* Properties of the two tokenizers, under SpecTok                         *)

Tokenized == tokPc \in {"tokenized", "located"}

Spans(toks) == {<<toks[i].start, toks[i].end>> : i \in 1..Len(toks)}

Blank(s, e) == \A i \in (s + 1)..e : tok_text[i] \in Whitespace

(* the exclusion list of whitespace tokenization *)
Punctuation == {"UFF0C", "U3002", "!", "?", ",", ".", ";", ":", "\"", "'"}

OnePunctuation(s, e) == e = s + 1 /\ tok_text[e] \in Punctuation

(* the segments jieba cuts tok_text into, as <<start, end>> *)
Boundaries == {0, Len(tok_text)} \cup tok_cuts

Segments ==
    {<<s, e>> \in Boundaries \X Boundaries :
        s < e /\ \A b \in Boundaries : ~(s < b /\ b < e)}

(* C16: _jieba_tokenize uses the exclusion set of _space_tokenize: it      *)
(* discards every segment whose trimmed text is empty or that is a single  *)
(* character of that set, ';', ':', the double and the single quote        *)
(* included, and keeps every other segment.                                *)
C16_SameExclusionSet ==
    Tokenized =>
        Spans(jieba_tokens) =
            {sp \in Segments :
                ~Blank(sp[1], sp[2]) /\ ~OnePunctuation(sp[1], sp[2])}

(* the maximal runs of non-whitespace characters of tok_text *)
Runs ==
    {<<s, e>> \in (0..Len(tok_text)) \X (0..Len(tok_text)) :
        /\ s < e
        /\ \A i \in (s + 1)..e : tok_text[i] \notin Whitespace
        /\ s = 0 \/ tok_text[s] \in Whitespace
        /\ e = Len(tok_text) \/ tok_text[e + 1] \in Whitespace}

InTextOrder(toks) ==
    \A i, j \in 1..Len(toks) : i < j => toks[i].end <= toks[j].start

CutFromText(toks) ==
    \A i \in 1..Len(toks) :
        /\ 0 <= toks[i].start
        /\ toks[i].start < toks[i].end
        /\ toks[i].end <= Len(tok_text)
        /\ toks[i].word = SubSeq(tok_text, toks[i].start + 1, toks[i].end)

(* C17: whitespace tokenization returns one token per maximal run of       *)
(* non-whitespace characters, with the run's offsets (end exclusive),      *)
(* except that a run that is exactly one character of the punctuation      *)
(* exclusion list is dropped; runs of two or more punctuation characters   *)
(* are kept.                                                               *)
C17_WhitespaceTokens ==
    Tokenized =>
        /\ Spans(space_tokens) =
              {r \in Runs : ~OnePunctuation(r[1], r[2])}
        /\ Len(space_tokens) = Cardinality(Spans(space_tokens))
        /\ CutFromText(space_tokens)
        /\ InTextOrder(space_tokens)

C17_Witness ==
    /\ Tokenized
    /\ tok_text = <<"a", " ", ",", " ", ".", ".", " ", ";">>
    /\ space_tokens = <<[word |-> <<"a">>, start |-> 0, end |-> 1],
                        [word |-> <<".", ".">>, start |-> 4, end |-> 6]>>

(* C18: every token (word, start, end) that tokenize_text returns has      *)
(* 0 <= start < end <= len(text) and word = text[start:end], is non-empty  *)
(* after trimming, and the tokens come in strictly increasing start order  *)
(* without overlap, for a segmenter that cuts the text into consecutive    *)
(* pieces.                                                                 *)
C18_TokenWellFormed ==
    Tokenized =>
        /\ CutFromText(word_positions)
        /\ \A i \in 1..Len(word_positions) :
              ~Blank(word_positions[i].start, word_positions[i].end)
        /\ InTextOrder(word_positions)
        /\ \A i, j \in 1..Len(word_positions) :
              i < j => word_positions[i].start < word_positions[j].start

C18_Witness ==
    /\ Tokenized
    /\ tok_text = <<"U4E16", " ", "U754C">>
    /\ tok_cuts = {1, 2}
    /\ tok_strategy = "jieba"
    /\ word_positions = <<[word |-> <<"U4E16">>, start |-> 0, end |-> 1],
                          [word |-> <<"U754C">>, start |-> 2, end |-> 3]>>

----------------------------------------------------------------------------
(* Properties of the selection rules, under SpecSel                        *)

(* C19: when the boxes of several filtered fragments contain the point,    *)
(* the selector returns one with the highest confidence among them, and    *)
(* among those of equal highest confidence the first in the filtered list, *)
(* so that the list and the point determine the choice.                    *)
C19_ContainmentTieBreak ==
    (selPc # "input" /\ Cardinality(ContainingIdx(ocr_results, RelPoint)) >= 2)
    => \E i \in ContainingIdx(ocr_results, RelPoint) :
          /\ \A j \in ContainingIdx(ocr_results, RelPoint) :
                /\ ocr_results[j].conf <= ocr_results[i].conf
                /\ ocr_results[j].conf = ocr_results[i].conf => i <= j
          /\ target_text_box = ocr_results[i]

(* a less confident containing fragment comes first, then two different    *)
(* ones of the same highest confidence: the first of the two is returned   *)
C19_Witness ==
    /\ selPc = "selected"
    /\ \E i, j, k \in ContainingIdx(ocr_results, RelPoint) :
          /\ i < j /\ j < k
          /\ ocr_results[i].conf < ocr_results[j].conf
          /\ ocr_results[j].conf = ocr_results[k].conf
          /\ ocr_results[j] # ocr_results[k]
          /\ target_text_box = ocr_results[j]

Clamp(v, lo, hi) == IF v < lo THEN lo ELSE IF v > hi THEN hi ELSE v

(* squared Euclidean distance from p to the nearest point of the box *)
NearestPointDistSq(box, p) ==
    LET nx == Clamp(p[1], box[1], box[2])
        ny == Clamp(p[2], box[3], box[4])
    IN  (p[1] - nx) * (p[1] - nx) + (p[2] - ny) * (p[2] - ny)

(* fragment i has a smaller score 2 * distance_to_box - confidence than j *)
LowerScore(i, j) ==
    ScoreLess(NearestPointDistSq(ocr_results[i].box, RelPoint),
              ocr_results[i].conf,
              NearestPointDistSq(ocr_results[j].box, RelPoint),
              ocr_results[j].conf)

(* C20: when no box contains the point, the fragment returned from the     *)
(* influence-radius set is one that minimizes the score                    *)
(* 2 * distance_to_box - confidence, distance_to_box being the Euclidean   *)
(* distance from the point to the nearest point of the unexpanded box; on  *)
(* equal scores it is the first in list order.                             *)
C20_ProximityRule ==
    (/\ selPc # "input"
     /\ ContainingIdx(ocr_results, RelPoint) = {}
     /\ RadiusIdx(ocr_results, RelPoint) # {})
    => \E i \in RadiusIdx(ocr_results, RelPoint) :
          /\ target_text_box = ocr_results[i]
          /\ \A j \in RadiusIdx(ocr_results, RelPoint) :
                /\ ~LowerScore(j, i)
                /\ j < i => LowerScore(i, j)

(* the fragment returned is farther from the point than an earlier one of  *)
(* the radius set, and more confident                                      *)
C20_Witness ==
    /\ selPc = "selected"
    /\ ContainingIdx(ocr_results, RelPoint) = {}
    /\ \E i, j \in RadiusIdx(ocr_results, RelPoint) :
          /\ j < i
          /\ NearestPointDistSq(ocr_results[j].box, RelPoint)
                < NearestPointDistSq(ocr_results[i].box, RelPoint)
          /\ ocr_results[j].conf < ocr_results[i].conf
          /\ target_text_box = ocr_results[i]

(* C21: when the radius-expanded box of no filtered fragment contains the  *)
(* point, the selector returns the filtered fragment at minimum Euclidean  *)
(* distance-to-box over all filtered fragments, however far, the first in  *)
(* list order on a tie.                                                    *)
C21_GlobalNearest ==
    (/\ selPc # "input"
     /\ RadiusIdx(ocr_results, RelPoint) = {}
     /\ KeptIdx(ocr_results) # {})
    => \E i \in KeptIdx(ocr_results) :
          /\ target_text_box = ocr_results[i]
          /\ \A j \in KeptIdx(ocr_results) :
                /\ NearestPointDistSq(ocr_results[i].box, RelPoint)
                     <= NearestPointDistSq(ocr_results[j].box, RelPoint)
                /\ j < i =>
                     NearestPointDistSq(ocr_results[i].box, RelPoint)
                       < NearestPointDistSq(ocr_results[j].box, RelPoint)

(* a farther fragment first, then two different fragments equally far and  *)
(* more than the radius away: the first of the two is returned             *)
C21_Witness ==
    /\ selPc = "selected"
    /\ RadiusIdx(ocr_results, RelPoint) = {}
    /\ \E i, j, k \in KeptIdx(ocr_results) :
          /\ i < j /\ j < k
          /\ NearestPointDistSq(ocr_results[j].box, RelPoint)
               < NearestPointDistSq(ocr_results[i].box, RelPoint)
          /\ NearestPointDistSq(ocr_results[j].box, RelPoint)
               = NearestPointDistSq(ocr_results[k].box, RelPoint)
          /\ NearestPointDistSq(ocr_results[j].box, RelPoint)
               > MOUSE_INFLUENCE_RADIUS * MOUSE_INFLUENCE_RADIUS
          /\ ocr_results[j] # ocr_results[k]
          /\ target_text_box = ocr_results[j]

(* C22: the gate _is_valid_ocr_result returns true exactly when the         *)
(* candidate filter inside select_word_at_position yields a non-empty      *)
(* list; both read the same CONFIDENCE_THRESHOLD and MIN_TEXT_LENGTH,      *)
(* whatever the tier the OCR output comes from.                            *)
C22_SameFilter ==
    selPc # "input" =>
        /\ gate_valid \in {"valid", "invalid"}
        /\ gate_valid = "valid" <=> filtered_results # <<>>

(* an output of three fragments of which one passes, one has too low a     *)
(* confidence and one a blank text; and the gate passes                    *)
C22_Witness ==
    /\ selPc = "selected"
    /\ Len(ocr_results) = 3
    /\ Len(filtered_results) = 1
    /\ \E i, j \in 1..3 :
          /\ ocr_results[i].conf < CONFIDENCE_THRESHOLD
          /\ ocr_results[j].conf >= CONFIDENCE_THRESHOLD
          /\ NonBlank(ocr_results[j].text) = {}
    /\ gate_valid = "valid"

----------------------------------------------------------------------------
(* Properties of the regions of one invocation, under Spec                 *)

RegionsOf(f, what, t) ==
    {f.regions[i] : i \in {j \in 1..Len(f.regions) :
                              f.regions[j].what = what
                              /\ f.regions[j].tier = t}}

CentredOn(rect, pos) ==
    /\ rect[1] = pos[1] - rect[3] \div 2
    /\ rect[2] = pos[2] - rect[4] \div 2

(* C23: at every tier the rectangle shown as feedback, the rectangle       *)
(* grabbed from the screen and the rectangle whose origin is subtracted    *)
(* from the global cursor position are the same region, with origin        *)
(* position - size // 2 on each axis; the query point given to the         *)
(* selector is therefore (width // 2, height // 2), a point of the         *)
(* captured image, and never the global position.                          *)
C23_CaptureRelativePoint ==
    \A f \in Invocations : \A t \in 1..Len(size_configs) :
        /\ \A s \in RegionsOf(f, "shown", t) : CentredOn(s.rect, f.pos)
        /\ \A g \in RegionsOf(f, "grabbed", t) :
              \A s \in RegionsOf(f, "shown", t) : g.rect = s.rect
        /\ \A q \in RegionsOf(f, "query", t) :
              /\ \A g \in RegionsOf(f, "grabbed", t) : q.rect = g.rect
              /\ RegionsOf(f, "grabbed", t) # {}
              /\ RegionsOf(f, "shown", t) # {}
              /\ q.point = <<q.rect[3] \div 2, q.rect[4] \div 2>>
              /\ q.point[1] \in 0..(q.rect[3] - 1)
              /\ q.point[2] \in 0..(q.rect[4] - 1)

(* a word found at the medium tier on a screen of ratio 2 with the cursor  *)
(* near the screen corner: the region starts left of and above the screen  *)
C23_Witness ==
    \E f \in Invocations :
        /\ f.pc = "done"
        /\ WordSelected(f)
        /\ f.pos = <<30, 20>>
        /\ dpi_scale = 8
        /\ \E q \in RegionsOf(f, "query", 2) :
              /\ q.rect = <<-270, -100, 600, 240>>
              /\ q.point = <<300, 120>>
              /\ \E g \in RegionsOf(f, "grabbed", 2) : g.rect = q.rect
              /\ \E s \in RegionsOf(f, "shown", 2) : s.rect = q.rect

EventIdx(f, e, t) == {i \in 1..Len(f.log) : f.log[i] = Ev(e, t)}

(* C24: for every tier that is attempted the capture_area_changed signal   *)
(* carrying that tier's region is emitted, and the feedback rectangle      *)
(* shown, before that tier's capture+OCR call is issued, exactly once per  *)
(* attempted tier; the regions emitted within one invocation have strictly *)
(* increasing size.                                                        *)
C24_FeedbackBeforeCapture ==
    \A f \in Invocations :
        /\ \A t \in 1..Len(size_configs) :
              /\ Cardinality(EventIdx(f, "area", t)) <= 1
              /\ Cardinality(EventIdx(f, "show", t)) <= 1
              /\ Cardinality(RegionsOf(f, "shown", t))
                   = Cardinality(EventIdx(f, "area", t))
              /\ \A c \in EventIdx(f, "capture", t) :
                    /\ \E a \in EventIdx(f, "area", t) : a < c
                    /\ \E v \in EventIdx(f, "show", t) : v < c
                    /\ \A s \in RegionsOf(f, "shown", t) :
                          \A g \in RegionsOf(f, "grabbed", t) :
                             s.rect = g.rect
        /\ \A t1, t2 \in 1..Len(size_configs) :
              t1 < t2 =>
                \A s1 \in RegionsOf(f, "shown", t1) :
                   \A s2 \in RegionsOf(f, "shown", t2) :
                      /\ s1.rect[3] < s2.rect[3]
                      /\ s1.rect[4] < s2.rect[4]

(* all three tiers were attempted: three signals, three captures           *)
C24_Witness ==
    \E f \in Invocations :
        /\ f.pc = "done"
        /\ \A t \in 1..3 :
              /\ Cardinality(EventIdx(f, "area", t)) = 1
              /\ Cardinality(EventIdx(f, "capture", t)) = 1
        /\ \E s1 \in RegionsOf(f, "shown", 1) :
              \E s3 \in RegionsOf(f, "shown", 3) :
                 s1.rect[3] = 200 /\ s3.rect[3] = 400

----------------------------------------------------------------------------
(* C25: in every call of _select_word_from_text made by                    *)
(* select_word_at_position the text is not empty, because the fragment     *)
(* passed the filter, so that len(text) > 0 where                          *)
(* avg_char_width = box_width / len(text) is computed.                     *)
C25_NoDivisionByZero ==
    selPc # "input" =>
        /\ target_text_box # NoneFrag =>
              /\ Len(target_text_box.text) > 0
              /\ TrimmedLen(target_text_box.text) >= MIN_TEXT_LENGTH
        /\ text_length # 0
        /\ text_length > 0 => text_length = Len(target_text_box.text)

(* a fragment with an empty text and a high confidence contains the point; *)
(* the fragment selected is another one, and the division is by 2          *)
C25_Witness ==
    /\ selPc = "selected"
    /\ \E i \in 1..Len(ocr_results) :
          /\ ocr_results[i].text = <<>>
          /\ ocr_results[i].conf >= CONFIDENCE_THRESHOLD
          /\ BoxContains(ocr_results[i].box, RelPoint)
    /\ target_text_box # NoneFrag
    /\ text_length = 2
    /\ selected_word = TextAB

----------------------------------------------------------------------------
(* C26: when no collaborator raises, tier k+1 is attempted if and only if  *)
(* the OCR output of tier k held no fragment that passes the candidate     *)
(* filter; a tier whose output holds one ends the invocation with a        *)
(* non-empty selected word, a token or the whole text of the fragment, so  *)
(* that the branch 'gate passed but no word selected' is never taken.      *)
C26_TierEscalation ==
    \A f \in Invocations :
        /\ Count(f, "no_word") = 0
        /\ ~Raised(f) =>
              /\ \A k \in 1..Len(size_configs) :
                    /\ (k < f.tier) => EventIdx(f, "capture", k) # {}
                    /\ (/\ k < Len(size_configs)
                        /\ EventIdx(f, "capture", k) # {}
                        /\ f.usable = 0) => f.tier > k
              /\ f.usable <= 1
              /\ f.usable = 1 =>
                    /\ f.pc = "done"
                    /\ f.last = "usable"
                    /\ WordSelected(f)
                    /\ f.word # <<>>
                    /\ f.emitted = f.word
                    /\ TokenOrText(f)
                    /\ CapturedTiers(f) = [k \in 1..f.tier |-> k]
                    /\ \A k \in (f.tier + 1)..Len(size_configs) :
                          EventIdx(f, "area", k) = {}
              /\ (f.usable = 0 /\ f.pc = "done") =>
                    /\ ~WordSelected(f)
                    /\ f.tier = Len(size_configs)
                    /\ Len(CapturedTiers(f)) = Len(size_configs)

(* the small tier's output is rejected by the filter, the medium tier's    *)
(* holds a passing fragment: the word is selected there                    *)
C26_Witness ==
    \E f \in Invocations :
        /\ ~Raised(f)
        /\ f.pc = "done"
        /\ f.tier = 2
        /\ f.usable = 1
        /\ CapturedTiers(f) = <<1, 2>>
        /\ f.word = <<"U4E16">>
        /\ f.frag.text = TextCjk

----------------------------------------------------------------------------
(* CrossPlatformHotkeyManager driven by its listener thread, its callers   *)
(* and the main thread's event loop                                        *)

MaxQueued == 2

MaxTimers == 1

MaxRebinds == 2

HotkeyStrings == {<<"alt", "c">>, <<"control", "option", "c">>, <<"c">>,
                  <<"alt", "">>}

ListenerKeys == {"alt", "alt_r", "ctrl_l", "c"}

Manager ==
    [pressed |-> pressed_keys, state |-> current_state,
     feedback |-> current_feedback_state, queued |-> queued_slots,
     timers |-> idle_timers, signals |-> <<>>]

Becomes(m) ==
    /\ pressed_keys' = m.pressed
    /\ current_state' = m.state
    /\ current_feedback_state' = m.feedback
    /\ queued_slots' = m.queued
    /\ idle_timers' = m.timers
    /\ signals' = m.signals

(* __init__, lines 479-493 *)
InitHot ==
    /\ \E parts \in HotkeyStrings :
          /\ parse(parts).key # NoKey
          /\ hotkey_combo = parse(parts)
    /\ pressed_keys = {}
    /\ current_state = "idle"
    /\ state_callbacks = 1
    /\ running = FALSE
    /\ listener = FALSE
    /\ current_feedback_state = "none"
    /\ queued_slots = <<>>
    /\ idle_timers = 0
    /\ signals = <<>>
    /\ hotPc = "init"
    /\ SelIdle
    /\ HoverIdle
    /\ TokIdle
    /\ DpiIdle
    /\ FbIdle

(* _on_key_press, lines 583-585, called by the listener's press_handler *)
KeyPress ==
    /\ listener
    /\ Len(queued_slots) < MaxQueued
    /\ \E key \in ListenerKeys :
          Becomes(add_key(Manager, key, hotkey_combo, state_callbacks,
                          "listener"))
    /\ hotPc' = "press"
    /\ UNCHANGED <<hotkey_combo, state_callbacks, running, listener, coreVars,
                   fbVars>>

(* _on_key_release, lines 587-589 *)
KeyRelease ==
    /\ listener
    /\ Len(queued_slots) < MaxQueued
    /\ \E key \in ListenerKeys :
          Becomes(remove_key(Manager, key, hotkey_combo, state_callbacks,
                             "listener"))
    /\ hotPc' = "release"
    /\ UNCHANGED <<hotkey_combo, state_callbacks, running, listener, coreVars,
                   fbVars>>

(* start, lines 517-545 *)
Start ==
    /\ IF running
       THEN UNCHANGED <<running, listener>>
       ELSE running' = TRUE /\ listener' = TRUE
    /\ Becomes(Manager)
    /\ hotPc' = "start"
    /\ UNCHANGED <<hotkey_combo, state_callbacks, coreVars, fbVars>>

(* stop, lines 547-561 *)
Stop ==
    /\ IF running
       THEN /\ Becomes(stop(Manager, hotkey_combo, state_callbacks))
            /\ listener' = FALSE
            /\ running' = FALSE
       ELSE /\ Becomes(Manager)
            /\ UNCHANGED <<running, listener>>
    /\ hotPc' = "stop"
    /\ UNCHANGED <<hotkey_combo, state_callbacks, coreVars, fbVars>>

(* change_hotkey, lines 563-581 *)
ChangeHotkey ==
    /\ state_callbacks <= MaxRebinds
    /\ \E parts \in HotkeyStrings :
          LET was_running == running
              stopped == IF was_running
                         THEN stop(Manager, hotkey_combo, state_callbacks)
                         ELSE Manager
          IN  IF parse(parts).key # NoKey
              THEN /\ hotkey_combo' = parse(parts)
                   /\ Becomes([stopped EXCEPT !.state = "idle"])
                   /\ state_callbacks' = state_callbacks + 1
                   /\ running' = was_running
                   /\ listener' = was_running
              ELSE /\ idle_timers < MaxTimers
                   /\ Becomes(show_error_state(stopped, "main"))
                   /\ running' = FALSE
                   /\ listener' = FALSE
                   /\ UNCHANGED <<hotkey_combo, state_callbacks>>
    /\ hotPc' = "change"
    /\ UNCHANGED <<coreVars, fbVars>>

(* the main thread's event loop runs a queued slot *)
DeliverQueued ==
    /\ queued_slots # <<>>
    /\ Head(queued_slots) = "idle" \/ idle_timers < MaxTimers
    /\ Becomes(RunSlot([Manager EXCEPT !.queued = Tail(@)],
                       Head(queued_slots)))
    /\ hotPc' = "slot"
    /\ UNCHANGED <<hotkey_combo, state_callbacks, running, listener, coreVars,
                   fbVars>>

(* a single-shot timer of lines 196 and 206 fires *)
IdleTimerFires ==
    /\ idle_timers > 0
    /\ Becomes(do_show_idle_state([Manager EXCEPT !.timers = @ - 1]))
    /\ hotPc' = "timer"
    /\ UNCHANGED <<hotkey_combo, state_callbacks, running, listener, coreVars,
                   fbVars>>

NextHot ==
    \/ KeyPress
    \/ KeyRelease
    \/ Start
    \/ Stop
    \/ ChangeHotkey
    \/ DeliverQueued
    \/ IdleTimerFires

SpecHot == InitHot /\ [][NextHot]_vars

----------------------------------------------------------------------------
ModifiersHeld ==
    \A modifier \in hotkey_combo.modifiers :
        modifier_map(modifier) \cap pressed_keys # {}

MainKeyHeld == hotkey_combo.key \in pressed_keys

(* C27: the hotkey state is a function of the pressed keys.  After every   *)
(* key press or release the manager has processed, the state machine is    *)
(* ACTIVATED iff all modifiers of the combination and its main key are     *)
(* pressed, MODIFIERS_READY iff all modifiers are pressed and the main key *)
(* is not, and IDLE otherwise; the ERROR state is never entered.           *)
C27_StateOfPressedKeys ==
    /\ current_state # "error"
    /\ hotPc \in {"press", "release"} =>
          /\ current_state = "activated" <=> (ModifiersHeld /\ MainKeyHeld)
          /\ current_state = "ready" <=> (ModifiersHeld /\ ~MainKeyHeld)
          /\ current_state = "idle" <=> ~ModifiersHeld

(* ctrl+alt+c activated through the right-hand alt key, on a state machine *)
(* that change_hotkey installed                                            *)
C27_Witness ==
    /\ hotPc = "press"
    /\ hotkey_combo = [modifiers |-> {"ctrl", "alt"}, key |-> "c"]
    /\ state_callbacks > 1
    /\ pressed_keys = {"alt_r", "ctrl_l", "c"}
    /\ current_state = "activated"

Activations(sigs) ==
    Cardinality({i \in 1..Len(sigs) : sigs[i] = "hotkey_activated"})

(* C28: one activation per hotkey press.  A handler emits hotkey_activated *)
(* once if it takes the state machine into ACTIVATED and not at all        *)
(* otherwise (a repeated press of a held key emits nothing), however many  *)
(* times change_hotkey has registered the keyboard-state callback.         *)
C28_OneActivationPerPress ==
    [][Activations(signals') =
          IF current_state # "activated" /\ current_state' = "activated"
          THEN 1 ELSE 0]_vars

(* the combination is pressed after two change_hotkey calls: three         *)
(* keyboard-state callbacks run, one activation is emitted                 *)
C28_Witness ==
    /\ hotPc = "press"
    /\ state_callbacks = 3
    /\ current_state = "activated"
    /\ signals = <<"state_activated", "hotkey_activated">>

managerState == <<hotkey_combo, pressed_keys, current_state, state_callbacks,
                  running, listener, current_feedback_state, queued_slots,
                  idle_timers>>

(* C29: stop returns to idle.  When stop() completes on a running manager, *)
(* whatever accepted hotkey it has, the pressed-key set is empty, the      *)
(* state machine is IDLE, no ready or activated feedback is showing and    *)
(* is_running() is false; stop() on a stopped manager and start() on a     *)
(* running one change nothing.                                             *)
C29_StopReturnsToIdle ==
    [][/\ (hotPc' = "stop" /\ running) =>
             /\ pressed_keys' = {}
             /\ current_state' = "idle"
             /\ current_feedback_state' \notin {"ready", "activated"}
             /\ ~running'
       /\ ((hotPc' = "stop" /\ ~running) \/ (hotPc' = "start" /\ running)) =>
             /\ UNCHANGED managerState
             /\ signals' = <<>>]_vars

----------------------------------------------------------------------------
(* VisualFeedback, hover_tool.py:30-143, between its construction and the  *)
(* cleanup at application exit.  The view is the record                    *)
(*   geometry      geometry of self.view                                   *)
(*   is_showing    self.is_showing                                         *)
(*   visible       self.view is shown                                      *)
(*   timer_active  self.timer.isActive()                                   *)
(*   timer_left    milliseconds until self.timer times out                 *)
(* Time passes in steps of TickMs; the event loop delivers a timeout at or *)
(* after the moment it is due.  hide() has no caller in the program.       *)

FEEDBACK_DURATION == 1200

TickMs == 200

(* show, lines 92-130 *)
KeepsRunningTimer(v, rect) ==
    IF rect[3] <= 0 \/ rect[4] <= 0 THEN v
    ELSE [geometry |-> rect,
          is_showing |-> TRUE,
          visible |-> IF ~v.is_showing THEN TRUE ELSE v.visible,
          timer_active |-> TRUE,
          timer_left |-> IF v.timer_active THEN v.timer_left
                         ELSE FEEDBACK_DURATION]

show(v, rect) ==
    IF rect[3] <= 0 \/ rect[4] <= 0 THEN v
    ELSE [geometry |-> rect,
          is_showing |-> TRUE,
          visible |-> IF ~v.is_showing THEN TRUE ELSE v.visible,
          timer_active |-> TRUE,
          timer_left |-> FEEDBACK_DURATION]

(* _hide_feedback, lines 132-137 *)
hide_feedback(v) ==
    IF v.is_showing
    THEN [v EXCEPT !.visible = FALSE, !.is_showing = FALSE]
    ELSE v

(* the rectangles of the three tiers around two cursor positions, and two  *)
(* rectangles without area                                                 *)
FbRects == {<<500, 310, 200, 80>>, <<450, 290, 300, 120>>,
            <<400, 270, 400, 160>>, <<-70, -20, 200, 80>>,
            <<10, 10, 0, 80>>, <<10, 10, 200, -5>>}

View ==
    [geometry |-> fb_geometry, is_showing |-> is_showing,
     visible |-> view_visible, timer_active |-> timer_active,
     timer_left |-> timer_left]

ViewBecomes(v) ==
    /\ fb_geometry' = v.geometry
    /\ is_showing' = v.is_showing
    /\ view_visible' = v.visible
    /\ timer_active' = v.timer_active
    /\ timer_left' = v.timer_left

HasArea(rect) == rect[3] > 0 /\ rect[4] > 0

(* __init__ and _setup_components, lines 33-90 *)
InitFb ==
    /\ fb_geometry = NoneRect
    /\ is_showing = FALSE
    /\ view_visible = FALSE
    /\ timer_active = FALSE
    /\ timer_left = 0
    /\ since_show = FEEDBACK_DURATION
    /\ fb_rect = NoneRect
    /\ fbPc = "init"
    /\ SelIdle
    /\ HoverIdle
    /\ TokIdle
    /\ DpiIdle
    /\ HotIdle

(* show(rect), called by _show_visual_feedback at line 547; since_show is  *)
(* the time since the latest call with a rectangle that has an area        *)
Show ==
    /\ \E rect \in FbRects :
          /\ ViewBecomes(show(View, rect))
          /\ fb_rect' = rect
          /\ since_show' = IF HasArea(rect) THEN 0 ELSE since_show
    /\ fbPc' = "show"
    /\ UNCHANGED <<coreVars, hotVars>>

(* TickMs milliseconds pass *)
Tick ==
    /\ timer_left' = IF timer_active /\ timer_left > TickMs
                     THEN timer_left - TickMs ELSE 0
    /\ since_show' = IF since_show + TickMs < FEEDBACK_DURATION
                     THEN since_show + TickMs ELSE FEEDBACK_DURATION
    /\ fbPc' = "tick"
    /\ UNCHANGED <<fb_geometry, is_showing, view_visible, timer_active,
                   fb_rect, coreVars, hotVars>>

(* the single-shot timer of lines 87-90 times out: _hide_feedback *)
TimerFires ==
    /\ timer_active
    /\ timer_left = 0
    /\ ViewBecomes(hide_feedback([View EXCEPT !.timer_active = FALSE]))
    /\ fbPc' = "timeout"
    /\ UNCHANGED <<since_show, fb_rect, coreVars, hotVars>>

NextFb == Show \/ Tick \/ TimerFires

SpecFb == InitFb /\ [][NextFb]_vars

(* the event loop keeps running: time passes and a due timeout is          *)
(* delivered                                                               *)
SpecFbFair == SpecFb /\ WF_vars(Tick) /\ WF_vars(TimerFires)

EffectiveShow == fbPc = "show" /\ HasArea(fb_rect)

(* C30: after show(rect) with positive width and height the feedback is    *)
(* visible and is_showing is true, and the single-shot timer has been      *)
(* restarted; the timer hides the feedback only when FEEDBACK_DURATION has *)
(* passed since the most recent such show, and does hide it eventually     *)
(* when no further show occurs; show with a non-positive width or height   *)
(* leaves visibility, is_showing and the timer unchanged.                  *)
C30_FeedbackLifetime ==
    /\ [](EffectiveShow =>
             /\ view_visible
             /\ is_showing
             /\ fb_geometry = fb_rect
             /\ timer_active
             /\ timer_left = FEEDBACK_DURATION)
    /\ [](is_showing <=> view_visible)
    /\ [][/\ (is_showing /\ ~is_showing') =>
                /\ since_show >= FEEDBACK_DURATION
                /\ fbPc' = "timeout"
          /\ (fbPc' = "show" /\ ~HasArea(fb_rect')) =>
                UNCHANGED <<fb_geometry, is_showing, view_visible,
                            timer_active, timer_left>>]_vars
    /\ is_showing ~> (~is_showing \/ EffectiveShow)

(* the medium tier's rectangle, shown last, has been hidden by the timer a *)
(* full FEEDBACK_DURATION after its show                                   *)
C30_Witness ==
    /\ fbPc = "timeout"
    /\ ~is_showing
    /\ ~view_visible
    /\ ~timer_active
    /\ fb_geometry = <<450, 290, 300, 120>>
    /\ since_show = FEEDBACK_DURATION

============================================================================
